---- MODULE Spec2Model ----
(***************************************************************************)
(* Model of packages/language-service/src/expressions.ts: the path finder  *)
(* findAstAt and the two resolvers built on it, getExpressionCompletions   *)
(* and getExpressionSymbol.  The expression tree, the scope, the pipe      *)
(* registry and the type resolver are inputs; every request is a pure      *)
(* computation over them.                                                  *)
(***************************************************************************)
EXTENDS Integers, Sequences, FiniteSets, TLC

VARIABLES
    ast,          \* the expression tree of the template binding being edited
    op,           \* the entry point that served the last request, or "idle"
    position,     \* the query offset of the request
    path,         \* the path findAstAt computed for the request
    completions,  \* what getExpressionCompletions returned
    symbolAt,     \* what getExpressionSymbol returned
    typeCalls     \* the getType calls of the request: receiver and answer

vars == <<ast, op, position, path, completions, symbolAt, typeCalls>>

(***************************************************************************)
(* Bounds of the model.                                                    *)
(***************************************************************************)
MaxEnd == 3           \* largest expression-relative offset of a generated tree
MaxArgs == 1          \* most arguments of a call or pipe in a generated tree
MaxAbsOffset == 1     \* largest absolute offset of the expression in the template

(***************************************************************************)
(* Data model.                                                             *)
(***************************************************************************)
MkSpan(s, e) == [start |-> s, end |-> e]

NoSpan == MkSpan(0 - 1, 0 - 1)

ShiftSpan(sp, by) == MkSpan(sp.start + by, sp.end + by)

Kinds ==
    {"Binary", "Chain", "Conditional", "FunctionCall", "ImplicitReceiver",
     "Interpolation", "KeyedRead", "KeyedWrite", "LiteralArray", "LiteralMap",
     "LiteralPrimitive", "MethodCall", "Pipe", "PrefixNot", "NonNullAssert",
     "PropertyRead", "PropertyWrite", "Quote", "SafeMethodCall",
     "SafePropertyRead"}

Names == {"a", "bc"}

\* A node: kind, expression-relative span, absolute sourceSpan, name and
\* (for pipes) absolute nameSpan, and the children in the order
\* RecursiveAstVisitor visits them.
MkNode(k, sp, abs, n, nsp, ch) ==
    [kind |-> k, span |-> sp, sourceSpan |-> ShiftSpan(sp, abs), name |-> n,
     nameSpan |-> nsp, children |-> ch]

(***************************************************************************)
(* Expression trees as the parser builds them.  Children are nested in     *)
(* their parent's span and lie in source order without overlapping.  The   *)
(* first child of an access, call, operator or pipe starts where its       *)
(* parent starts and the last operand of an operator or write ends where   *)
(* its parent ends; a named node leaves room for its name token after its  *)
(* first child; ImplicitReceiver is zero-width and only ever a receiver;   *)
(* Quote, Chain and Interpolation only occur at the root.                  *)
(***************************************************************************)
ListKinds == {"LiteralArray", "LiteralMap"}

RootKinds == {"Chain", "Interpolation"}

CallKinds == {"FunctionCall", "MethodCall", "SafeMethodCall", "Pipe"}

NamedKinds ==
    {"MethodCall", "Pipe", "PropertyRead", "PropertyWrite", "SafeMethodCall",
     "SafePropertyRead"}

ImplicitKinds == {"MethodCall", "PropertyRead", "PropertyWrite"}

LeftAlignedKinds ==
    {"Binary", "Conditional", "FunctionCall", "KeyedRead", "KeyedWrite",
     "MethodCall", "Pipe", "NonNullAssert", "PropertyRead", "PropertyWrite",
     "SafeMethodCall", "SafePropertyRead"}

\* Kinds whose last child ends where the node ends (no closing token).
RightAlignedKinds ==
    {"Binary", "Conditional", "KeyedWrite", "PrefixNot", "PropertyWrite"}

\* Kinds generated below the root.
InnerKinds == {"Pipe", "PropertyRead", "PropertyWrite"}

\* The kinds a node with n children can have.
KindsOfArity(n, root) ==
    LET all ==
          (IF n = 0 THEN ListKinds ELSE {})
          \cup (IF n = 1 THEN {"PrefixNot", "NonNullAssert", "PropertyRead",
                               "SafePropertyRead"} ELSE {})
          \cup (IF n = 2 THEN {"Binary", "KeyedRead", "PropertyWrite"} ELSE {})
          \cup (IF n = 3 THEN {"Conditional", "KeyedWrite"} ELSE {})
          \cup (IF n >= 1 /\ n <= MaxArgs + 1
                  THEN CallKinds \cup ListKinds \cup RootKinds ELSE {})
    IN  IF root THEN all ELSE all \cap InnerKinds

MaxArity == IF MaxArgs + 1 > 3 THEN MaxArgs + 1 ELSE 3

\* Non-empty spans inside lo..hi.
SpansIn(lo, hi) == {sp \in [start : lo..hi, end : lo..hi] : sp.start < sp.end}

\* Where the name token of a named node can start: after the first child and
\* before the second child (or the end of the node).
NameStarts(n, sp, ch) ==
    LET from == IF ch = <<>> THEN sp.start ELSE ch[1].span.end
        to == IF Len(ch) >= 2 THEN ch[2].span.start ELSE sp.end
    IN  {s \in from..to : s + Len(n) <= to}

\* The nodes of kind k with span sp and children ch.
NodesOf(k, sp, abs, ch) ==
    IF k \notin NamedKinds
      THEN {MkNode(k, sp, abs, "", NoSpan, ch)}
      ELSE UNION {{MkNode(k, sp, abs, nm,
                          IF k = "Pipe"
                            THEN MkSpan(ns + abs, ns + abs + Len(nm))
                            ELSE NoSpan,
                          ch) :
                      ns \in IF k = "Pipe" THEN NameStarts(nm, sp, ch)
                             ELSE IF NameStarts(nm, sp, ch) = {} THEN {}
                             ELSE {0}} :
                  nm \in Names}

RECURSIVE Exprs(_, _, _, _, _), ChildSeqs(_, _, _, _, _, _, _)
\* The children i..n of a node of kind k and span sp: expressions of depth
\* at most d in source order from offset lo on.
ChildSeqs(d, k, sp, lo, abs, i, n) ==
    IF i > n THEN {<<>>}
    ELSE LET firsts ==
               {c \in Exprs(d, FALSE, lo, sp.end, abs) :
                   /\ i = 1 =>
                        IF k \in LeftAlignedKinds THEN c.span.start = sp.start
                        ELSE IF k \in ListKinds \cup {"PrefixNot"}
                          THEN c.span.start > sp.start
                        ELSE TRUE
                   /\ i = n /\ k \in RightAlignedKinds
                        => c.span.end = sp.end}
               \cup (IF i = 1 /\ k \in ImplicitKinds
                       THEN {MkNode("ImplicitReceiver",
                                    MkSpan(sp.start, sp.start), abs, "",
                                    NoSpan, <<>>)}
                       ELSE {})
         IN  UNION {{<<c>> \o rest :
                        rest \in ChildSeqs(d, k, sp, c.span.end, abs, i + 1, n)} :
                    c \in firsts}

\* Expressions of depth at most d (d = 0: literals) with spans inside lo..hi.
Exprs(d, root, lo, hi, abs) ==
    {MkNode(k, sp, abs, "", NoSpan, <<>>) :
        k \in {"LiteralPrimitive"} \cup (IF root THEN {"Quote"} ELSE {}),
        sp \in SpansIn(lo, hi)}
    \cup (IF d = 0 THEN {}
          ELSE UNION {UNION {UNION {NodesOf(k, sp, abs, ch) :
                   ch \in ChildSeqs(d - 1, k, sp, sp.start, abs, 1, n)} :
                   k \in KindsOfArity(n, root)} :
                   sp \in SpansIn(lo, hi), n \in 0..MaxArity})

\* The parser's wrapper carrying the source text around an expression.
ASTWithSource(e) ==
    [kind |-> "ASTWithSource", span |-> e.span, sourceSpan |-> e.sourceSpan,
     name |-> "", nameSpan |-> NoSpan, children |-> <<e>>]

\* The trees handed to the entry points: every kind at the root.
Trees(abs) == Exprs(2, TRUE, 0, MaxEnd, abs)

(***************************************************************************)
(* Symbols and symbol tables (types.ts interfaces).                        *)
(***************************************************************************)
MkSymbol(owner, n) == [owner |-> owner, name |-> n]

\* JavaScript's undefined, as a symbol and as a span; both are falsy.
UndefinedSymbol == MkSymbol("undefined", "")

UndefinedSpan == NoSpan

MkTable(id, names) == [id |-> id, names |-> names]

\* SymbolTable.values()
Values(table) == {MkSymbol(table.id, n) : n \in table.names}

\* SymbolTable.get(name)
Get(table, n) ==
    IF n \in table.names THEN MkSymbol(table.id, n) ELSE UndefinedSymbol

\* The outer scope of the template (the `scope` parameter).
Scope == MkTable("scope", {"a", "x"})

\* templateInfo.query.getPipes()
GetPipes == MkTable("pipes", {"a", "async"})

\* templateInfo.query.getBuiltinType(BuiltinType.Any).members()
AnyMembers == MkTable("any", {})

\* The one known receiver type and its members().
KnownType == MkSymbol("type", "T")

Members(type) == MkTable("T", {"a", "prop"})

\* The type resolver answers per class of receiver: a known type, or the
\* falsy unknown symbol.
ReceiverClasses == {"implicit", "explicit"}

ReceiverClass(node) ==
    IF node.kind = "ImplicitReceiver" THEN "implicit" ELSE "explicit"

\* A request consults the resolver about at most one receiver, so the
\* resolvers that answer alike for both classes cover every behaviour.
Resolvers ==
    {[c \in ReceiverClasses |-> t] : t \in {UndefinedSymbol, KnownType}}

\* getType(ast): new AstType(...).getType(ast)
GetType(resolver, node) == resolver[ReceiverClass(node)]

\* The record of one getType call.
TypeCall(resolver, node) == [node |-> node, type |-> GetType(resolver, node)]

(***************************************************************************)
(* utils.inSpan and the path finder.                                       *)
(***************************************************************************)
\* inSpan(position, span, exclusive): the offset lies in the half-open range
\* [start, end); "exclusive" likewise excludes the end offset.
inSpan(pos, span, exclusive) ==
    span # UndefinedSpan /\ pos >= span.start /\ pos < span.end

\* Admits with || for the && between the two tests.
AdmitsEitherTest(node, pos, excludeEmpty) ==
    (~excludeEmpty \/ node.sourceSpan.start < node.sourceSpan.end)
        \/ inSpan(pos, node.sourceSpan, FALSE)

\* Admits testing the expression-relative span instead of the source span.
AdmitsBySpan(node, pos, excludeEmpty) ==
    (~excludeEmpty \/ node.span.start < node.span.end)
        /\ inSpan(pos, node.span, FALSE)

\* Admits with excludeEmpty replacing the containment test, not adding to it.
AdmitsByFlag(node, pos, excludeEmpty) ==
    IF excludeEmpty
      THEN node.sourceSpan.start < node.sourceSpan.end
      ELSE inSpan(pos, node.sourceSpan, FALSE)

\* The test of the visitor's visit(ast) override.
Admits(node, pos, excludeEmpty) ==
    (~excludeEmpty \/ node.sourceSpan.start < node.sourceSpan.end)
        /\ inSpan(pos, node.sourceSpan, FALSE)

RECURSIVE visit(_, _, _), visitAll(_, _, _)
\* visitor.visit(ast): push the node and descend (RecursiveAstVisitor hands
\* every child back to visit), or skip the whole subtree.
visit(node, pos, excludeEmpty) ==
    IF Admits(node, pos, excludeEmpty)
      THEN <<node>> \o visitAll(node.children, pos, excludeEmpty)
      ELSE <<>>

visitAll(nodes, pos, excludeEmpty) ==
    IF nodes = <<>> THEN <<>>
    ELSE visit(Head(nodes), pos, excludeEmpty)
             \o visitAll(Tail(nodes), pos, excludeEmpty)

\* The ASTWithSource unwrapping.
Unwrap(root) ==
    IF root.kind = "ASTWithSource" THEN root.children[1] ELSE root

findAstAt(root, pos, excludeEmpty) == visit(Unwrap(root), pos, excludeEmpty)

\* AstPath.tail
PathTail(p) == p[Len(p)]

(***************************************************************************)
(* getExpressionCompletions.                                               *)
(***************************************************************************)
NoCompletions == [defined |-> FALSE, values |-> {}]

SomeCompletions(table) == [defined |-> TRUE, values |-> Values(table)]

NoCalls == {}

\* args[0] of a call or pipe: the child after the receiver / piped expression.
Receiver(node) == node.children[1]

Args(node) == Tail(node.children)

\* visitPipe of the completion visitor: the pipe-name position test.
InPipeNamePosition(node, pos) ==
    pos >= Receiver(node).span.end
        /\ (Args(node) = <<>> \/ pos < Args(node)[1].span.start)

\* ReceiverScope without the fallback to the outer scope.
ReceiverScopeNoFallback(resolver, node) ==
    LET receiverType == GetType(resolver, Receiver(node))
    IN  IF receiverType # UndefinedSymbol THEN Members(receiverType)
        ELSE AnyMembers

\* visitPropertyRead / visitPropertyWrite / visitSafeMethodCall /
\* visitSafePropertyRead of the completion visitor.
ReceiverScope(resolver, node) ==
    LET receiverType == GetType(resolver, Receiver(node))
    IN  IF receiverType # UndefinedSymbol THEN Members(receiverType) ELSE Scope

\* tail.visit({...}) of getExpressionCompletions: the value of `result`,
\* as [none, table], and the getType calls made.
CompletionVisit(resolver, tail, pos) ==
    CASE tail.kind = "Interpolation" ->
           [none |-> TRUE, table |-> Scope, calls |-> NoCalls]
      [] tail.kind = "Pipe" ->
           [none |-> FALSE,
            table |-> IF InPipeNamePosition(tail, pos) THEN GetPipes ELSE Scope,
            calls |-> NoCalls]
      [] tail.kind \in {"PropertyRead", "PropertyWrite", "SafeMethodCall",
                        "SafePropertyRead"} ->
           [none |-> FALSE, table |-> ReceiverScope(resolver, tail),
            calls |-> {TypeCall(resolver, Receiver(tail))}]
      [] tail.kind = "Quote" ->
           [none |-> FALSE, table |-> AnyMembers, calls |-> NoCalls]
      [] OTHER ->
           [none |-> FALSE, table |-> Scope, calls |-> NoCalls]

getExpressionCompletions(resolver, root, pos) ==
    LET p == findAstAt(root, pos, FALSE)
        v == CompletionVisit(resolver, PathTail(p), pos)
    IN  IF p = <<>>
          THEN [path |-> p, result |-> NoCompletions, calls |-> NoCalls]
          ELSE [path |-> p,
                result |-> IF v.none THEN NoCompletions
                           ELSE SomeCompletions(v.table),
                calls |-> v.calls]

(***************************************************************************)
(* getExpressionSymbol.                                                    *)
(***************************************************************************)
NoSymbol == [defined |-> FALSE, symbol |-> UndefinedSymbol, span |-> UndefinedSpan]

\* receiverType && receiverType.members().get(ast.name)
MemberSymbol(resolver, node) ==
    LET receiverType == GetType(resolver, Receiver(node))
    IN  IF receiverType # UndefinedSymbol
          THEN Get(Members(receiverType), node.name)
          ELSE UndefinedSymbol

\* WriteSpan without the narrowing.
WriteSpanFull(node) == node.span

\* visitPropertyWrite: the span of the name only.
WriteSpan(node) == MkSpan(node.span.start, node.span.start + Len(node.name))

\* PipeSpan without the conversion to expression-relative offsets.
PipeSpanAbsolute(node) == node.nameSpan

\* visitPipe: the name span relative to the start of the expression.
PipeSpan(node) ==
    LET offset == node.sourceSpan.start - node.span.start
    IN  MkSpan(node.nameSpan.start - offset, node.nameSpan.end - offset)

\* SymbolHandler with visitKeyedRead given the body of a member access.
SymbolHandlerKeyed(kind) ==
    CASE kind \in {"MethodCall", "PropertyRead", "SafeMethodCall",
                   "SafePropertyRead", "KeyedRead"} -> "member"
      [] kind = "Pipe" -> "pipe"
      [] kind = "PropertyWrite" -> "write"
      [] OTHER -> "empty"

\* The handler of the symbol visitor that tail.visit selects: the four
\* member accesses share one body, every other kind has an empty one.
SymbolHandler(kind) ==
    CASE kind \in {"MethodCall", "PropertyRead", "SafeMethodCall",
                   "SafePropertyRead"} -> "member"
      [] kind = "Pipe" -> "pipe"
      [] kind = "PropertyWrite" -> "write"
      [] OTHER -> "empty"

\* tail.visit({...}) of getExpressionSymbol: the values of `symbol` and
\* `span`, and the getType calls made.
SymbolVisit(resolver, tail, pos) ==
    CASE SymbolHandler(tail.kind) = "member" ->
           [symbol |-> MemberSymbol(resolver, tail), span |-> tail.span,
            calls |-> {TypeCall(resolver, Receiver(tail))}]
      [] SymbolHandler(tail.kind) = "pipe" ->
           IF inSpan(pos, tail.nameSpan, TRUE)
             THEN [symbol |-> Get(GetPipes, tail.name), span |-> PipeSpan(tail),
                   calls |-> NoCalls]
             ELSE [symbol |-> UndefinedSymbol, span |-> UndefinedSpan,
                   calls |-> NoCalls]
      [] SymbolHandler(tail.kind) = "write" ->
           [symbol |-> MemberSymbol(resolver, tail), span |-> WriteSpan(tail),
            calls |-> {TypeCall(resolver, Receiver(tail))}]
      [] OTHER ->
           [symbol |-> UndefinedSymbol, span |-> UndefinedSpan,
            calls |-> NoCalls]

\* SymbolResult with || for && in the final test.
SymbolResultPartial(symbol, span) ==
    IF symbol # UndefinedSymbol \/ span # UndefinedSpan
      THEN [defined |-> TRUE, symbol |-> symbol, span |-> span]
      ELSE NoSymbol

\* if (symbol && span) return {symbol, span};
SymbolResult(symbol, span) ==
    IF symbol # UndefinedSymbol /\ span # UndefinedSpan
      THEN [defined |-> TRUE, symbol |-> symbol, span |-> span]
      ELSE NoSymbol

getExpressionSymbol(resolver, root, pos) ==
    LET p == findAstAt(root, pos, TRUE)
        v == SymbolVisit(resolver, PathTail(p), pos)
    IN  IF p = <<>>
          THEN [path |-> p, result |-> NoSymbol, calls |-> NoCalls]
          ELSE [path |-> p, result |-> SymbolResult(v.symbol, v.span),
                calls |-> v.calls]

(***************************************************************************)
(* The state machine: a tree is loaded, then each request runs one of the  *)
(* two entry points on it at some offset.                                  *)
(***************************************************************************)
AbsOffsets == 0..MaxAbsOffset

Positions == 0..(MaxEnd + MaxAbsOffset)

\* `a | b`: the piped expression ends at 5, the pipe name starts at 8.
PipeExample ==
    MkNode("Pipe", MkSpan(0, 9), 0, "b", MkSpan(8, 9),
           <<MkNode("PropertyRead", MkSpan(0, 5), 0, "a", NoSpan,
                    <<MkNode("ImplicitReceiver", MkSpan(0, 0), 0, "", NoSpan,
                             <<>>)>>)>>)

\* `prop = <value>` at [10, 25), the name at [10, 14).
WriteExample ==
    MkNode("PropertyWrite", MkSpan(10, 25), 0, "prop", NoSpan,
           <<MkNode("ImplicitReceiver", MkSpan(10, 10), 0, "", NoSpan, <<>>),
             MkNode("LiteralPrimitive", MkSpan(17, 25), 0, "", NoSpan, <<>>)>>)

\* `{{a | b:c}}`: the expression `a | b:c` starts at offset 2 of the
\* template; spans are relative to it, source spans and nameSpan absolute.
PipeArgExample ==
    MkNode("Pipe", MkSpan(0, 7), 2, "b", MkSpan(6, 7),
           <<MkNode("PropertyRead", MkSpan(0, 2), 2, "a", NoSpan,
                    <<MkNode("ImplicitReceiver", MkSpan(0, 0), 2, "", NoSpan,
                             <<>>)>>),
             MkNode("PropertyRead", MkSpan(6, 7), 2, "c", NoSpan,
                    <<MkNode("ImplicitReceiver", MkSpan(6, 6), 2, "", NoSpan,
                             <<>>)>>)>>)

Examples == {PipeExample, WriteExample, PipeArgExample}

ExamplePositions == 0..25

Inputs ==
    LET trees == Examples \cup UNION {Trees(abs) : abs \in AbsOffsets}
    IN  trees \cup {ASTWithSource(t) : t \in trees}

\* The offsets a request on tree t is made at.
PositionsOf(t) == IF Unwrap(t) \in Examples THEN ExamplePositions ELSE Positions

Idle ==
    /\ op = "idle"
    /\ position = 0
    /\ path = <<>>
    /\ completions = NoCompletions
    /\ symbolAt = NoSymbol
    /\ typeCalls = NoCalls

Init == ast \in Inputs /\ Idle

\* A completion request.
GetExpressionCompletions ==
    /\ op = "idle"
    /\ \E pos \in PositionsOf(ast), resolver \in Resolvers :
         LET r == getExpressionCompletions(resolver, ast, pos)
         IN  /\ op' = "completions"
             /\ position' = pos
             /\ path' = r.path
             /\ completions' = r.result
             /\ typeCalls' = r.calls
    /\ UNCHANGED <<ast, symbolAt>>

\* A hover / go-to-definition request.
GetExpressionSymbol ==
    /\ op = "idle"
    /\ \E pos \in PositionsOf(ast), resolver \in Resolvers :
         LET r == getExpressionSymbol(resolver, ast, pos)
         IN  /\ op' = "symbol"
             /\ position' = pos
             /\ path' = r.path
             /\ symbolAt' = r.result
             /\ typeCalls' = r.calls
    /\ UNCHANGED <<ast, completions>>

\* The result is handed back; nothing of the request outlives the call.
Return ==
    /\ op # "idle"
    /\ op' = "idle"
    /\ position' = 0
    /\ path' = <<>>
    /\ completions' = NoCompletions
    /\ symbolAt' = NoSymbol
    /\ typeCalls' = NoCalls
    /\ UNCHANGED ast

Next == GetExpressionCompletions \/ GetExpressionSymbol \/ Return

Spec == Init /\ [][Next]_vars

(***************************************************************************)
(* Vocabulary of the properties.                                           *)
(***************************************************************************)
RECURSIVE AllNodes(_), NodesOfAll(_)
\* Every node of the tree rooted at node.
AllNodes(node) == {node} \cup NodesOfAll(node.children)

NodesOfAll(nodes) ==
    IF nodes = <<>> THEN {}
    ELSE AllNodes(Head(nodes)) \cup NodesOfAll(Tail(nodes))

\* start <= offset < end
HalfOpenContains(span, pos) == span.start <= pos /\ pos < span.end

\* The span inner lies inside the span outer.
SpanContains(outer, inner) ==
    outer.start <= inner.start /\ inner.end <= outer.end

RECURSIVE IsSubSeq(_, _)
\* s can be obtained from t by deleting elements.
IsSubSeq(s, t) ==
    IF s = <<>> THEN TRUE
    ELSE IF t = <<>> THEN FALSE
    ELSE IF Head(s) = Head(t) THEN IsSubSeq(Tail(s), Tail(t))
    ELSE IsSubSeq(s, Tail(t))

Range(seq) == {seq[i] : i \in 1..Len(seq)}

Root == Unwrap(ast)

Served == op # "idle"

TailKind == IF path = <<>> THEN "none" ELSE PathTail(path).kind

\* The excludeEmpty argument of the request's findAstAt call.
ExcludeEmpty == op = "symbol"

\* Node spans and source spans of the tree use one coordinate system.
SameCoordinates == \A n \in AllNodes(Root) : n.span = n.sourceSpan

\* The answer getType gave for the tail's receiver, if it was asked.
ReceiverAnswers == {c.type : c \in typeCalls}

ReceiverKinds ==
    {"PropertyRead", "PropertyWrite", "SafeMethodCall", "SafePropertyRead"}

NamelessKinds ==
    {"Binary", "Chain", "Conditional", "FunctionCall", "ImplicitReceiver",
     "Interpolation", "KeyedRead", "KeyedWrite", "LiteralArray", "LiteralMap",
     "LiteralPrimitive", "PrefixNot", "NonNullAssert", "Quote"}

(***************************************************************************)
(* C1  Pipe boundary exactness.  In `a | b` with `a` ending at 5 and `b`   *)
(* starting at 8, a completion request at 5, 6 or 7 returns the values of  *)
(* the pipe registry and one at 4 does not.  In general, when the tail is  *)
(* a pipe and the offset is at or after the end of the piped expression    *)
(* and there is no argument or the offset precedes the start of the first  *)
(* argument, the result is the pipe registry and not the scope.  The       *)
(* offset is an offset into the template, as are the source spans.         *)
(***************************************************************************)
PipeBoundaryExactness ==
    op = "completions" =>
      /\ Root = PipeExample /\ position \in {5, 6, 7}
           => completions = SomeCompletions(GetPipes)
      /\ Root = PipeExample /\ position = 4
           => completions # SomeCompletions(GetPipes)
      /\ TailKind = "Pipe"
           => LET pipe == PathTail(path)
                  exp == pipe.children[1]
                  args == Tail(pipe.children)
              IN  /\ position >= exp.sourceSpan.end
                  /\ (args = <<>> \/ position < args[1].sourceSpan.start)
                  => /\ completions.defined
                     /\ completions.values = Values(GetPipes)
                     /\ completions.values # Values(Scope)

WriteSpanNarrowing ==
    /\ op = "symbol"
    /\ TailKind = "PropertyWrite"
    /\ ReceiverAnswers = {KnownType}
    /\ PathTail(path).name \in Members(KnownType).names
    => LET write == PathTail(path)
       IN  /\ symbolAt.defined
           /\ symbolAt.span =
                MkSpan(write.span.start, write.span.start + Len(write.name))
           /\ symbolAt.span # write.span
           /\ Root = WriteExample /\ position = 12
                => symbolAt.span = MkSpan(10, 14)

WriteSpanWitness ==
    /\ op = "symbol"
    /\ Root = WriteExample
    /\ position = 12
    /\ symbolAt.defined
    /\ symbolAt.span = MkSpan(10, 14)

(***************************************************************************)
(* C6  Unknown-receiver fallback.  For a PropertyRead, PropertyWrite,      *)
(* SafeMethodCall or SafePropertyRead tail a completion request asks the   *)
(* type of the receiver; when it is unknown the result is the values of    *)
(* the outer scope (not empty, not "no result"), when it is known the      *)
(* values of its members.                                                  *)
(***************************************************************************)
UnknownReceiverFallback ==
    op = "completions" /\ TailKind \in ReceiverKinds
    => /\ {c.node : c \in typeCalls} = {PathTail(path).children[1]}
       /\ Cardinality(typeCalls) = 1
       /\ ReceiverAnswers = {UndefinedSymbol}
            => /\ completions.defined
               /\ completions.values = Values(Scope)
               /\ completions.values # {}
       /\ \A t \in ReceiverAnswers \ {UndefinedSymbol} :
            /\ completions.defined
            /\ completions.values = Values(Members(t))

UnknownReceiverWitness ==
    /\ op = "completions"
    /\ TailKind = "PropertyRead"
    /\ ReceiverAnswers = {UndefinedSymbol}
    /\ completions.values = Values(Scope)

(***************************************************************************)
(* C7  Pipe symbol span.  For a Pipe tail a symbol request has a result    *)
(* only if the offset is inside the pipe's name span; the symbol is then   *)
(* the registry's entry for the name and the span is the name span moved   *)
(* back by sourceSpan.start - span.start, that is, the name span relative  *)
(* to the start of the expression.                                         *)
(***************************************************************************)
PipeSymbolSpan ==
    op = "symbol" /\ TailKind = "Pipe"
    => LET pipe == PathTail(path)
           shift == pipe.sourceSpan.start - pipe.span.start
       IN  /\ symbolAt.defined
                => /\ HalfOpenContains(pipe.nameSpan, position)
                   /\ symbolAt.symbol = MkSymbol("pipes", pipe.name)
                   /\ pipe.name \in GetPipes.names
                   /\ symbolAt.span.start = pipe.nameSpan.start - shift
                   /\ symbolAt.span.end = pipe.nameSpan.end - shift
                   /\ symbolAt.span.start - pipe.span.start
                        = pipe.nameSpan.start - pipe.sourceSpan.start
           /\ HalfOpenContains(pipe.nameSpan, position)
                /\ pipe.name \in GetPipes.names
                => symbolAt.defined

PipeSymbolWitness ==
    /\ op = "symbol"
    /\ TailKind = "Pipe"
    /\ symbolAt.defined
    /\ PathTail(path).sourceSpan # PathTail(path).span

(***************************************************************************)
(* C8  No symbol for nameless kinds.  When the tail is a literal, or any   *)
(* other kind without a name, a symbol request returns no result whatever  *)
(* the offset and the resolver, and the resolver is not called.            *)
(***************************************************************************)
NoSymbolForNamelessKinds ==
    op = "symbol" /\ TailKind \in NamelessKinds
    => symbolAt = NoSymbol /\ typeCalls = {}

NoSymbolWitness ==
    /\ op = "symbol"
    /\ TailKind = "LiteralPrimitive"
    /\ Len(path) >= 2
    /\ symbolAt = NoSymbol

(***************************************************************************)
(* C9  All-or-nothing symbol result.  A symbol request returns a pair only *)
(* with both the symbol and the span; an empty path, an unknown receiver   *)
(* type, a member missing on a known type and a pipe name missing in the   *)
(* registry all give no result.                                            *)
(***************************************************************************)
AllOrNothingSymbol ==
    op = "symbol"
    => /\ symbolAt.defined
            => symbolAt.symbol # UndefinedSymbol /\ symbolAt.span # UndefinedSpan
       /\ ~symbolAt.defined => symbolAt = NoSymbol
       /\ path = <<>> => symbolAt = NoSymbol
       /\ UndefinedSymbol \in ReceiverAnswers => symbolAt = NoSymbol
       /\ /\ ReceiverAnswers = {KnownType}
          /\ PathTail(path).name \notin Members(KnownType).names
          => symbolAt = NoSymbol
       /\ TailKind = "Pipe" /\ PathTail(path).name \notin GetPipes.names
            => symbolAt = NoSymbol

AllOrNothingWitness ==
    /\ op = "symbol"
    /\ TailKind = "PropertyRead"
    /\ ReceiverAnswers = {KnownType}
    /\ PathTail(path).name \notin Members(KnownType).names
    /\ symbolAt = NoSymbol

(***************************************************************************)
(* C10  The cursor lies in the reported span.  With one coordinate system  *)
(* for spans and source spans, whenever a symbol request returns a pair,   *)
(* span.start <= offset <= span.end.                                       *)
(***************************************************************************)
CursorInReportedSpan ==
    op = "symbol" /\ symbolAt.defined /\ SameCoordinates
    => symbolAt.span.start <= position /\ position <= symbolAt.span.end

====
